---- MODULE Spec2Model ----
(***************************************************************************)
(* Model of the retrieval-augmented question-answering pipeline of         *)
(* gov-scheme-qna: PDF ingestion into the DocumentChunk collection         *)
(* (controllers/scheme.js, services/embeddingService.js, models/Scheme,    *)
(* models/DocumentChunk), the Azure embedding retry loop                   *)
(* (services/azureEmbeddingService.js) and the semantic search             *)
(* (services/semanticSearchService.js).                                    *)
(*                                                                         *)
(* The specifications of the module:                                       *)
(*   Spec        the scheme lifecycle and the background ingestion jobs    *)
(*   SpecAzure   AzureEmbeddingService.generateEmbeddings                  *)
(*   SpecSearch  SemanticSearchService.searchRelevantChunks                *)
(*   SpecAsk     ChatController.askQuestion and the searches               *)
(*   SpecCosine  SemanticSearchService.calculateCosineSimilarity           *)
(*   SpecUsage   repeated searches and the usage statistics they write     *)
(*   SpecRun     one processPDFForScheme call, extraction to insertMany    *)
(*   SpecSplit   TextPreprocessingService.createChunks, splitIntoChunks    *)
(*   SpecTranslation  the calls of TranslationService                      *)
(*   SpecChunking     TextPreprocessingService.preprocessAndChunk          *)
(*   SpecRefine       AIService.refineResponse                             *)
(*   SpecQuality      TextPreprocessingService.enhanceChunks               *)
(*   SpecStatus       getSchemeProcessingStatus next to the ingestion      *)
(* Each leaves the variables of the others unchanged.                      *)
(***************************************************************************)
EXTENDS Integers, Sequences, FiniteSets, TLC

VARIABLES
    schemes,      \* Scheme collection: id -> [state, pdf]
    store,        \* DocumentChunk collection written by ingestion: a set of documents
    jobs,         \* processPDFForScheme invocations: id -> [pc, schemeId, doc, kind, n, simulated]
    nextDoc,      \* the next uploaded PDF (each upload yields a fresh Cloudinary URL)
    cascaded,     \* history: scheme -> a delete's cascade was applied and no later request re-ingested
    azure,        \* one AzureEmbeddingService.generateEmbeddings call
    chunks,       \* DocumentChunk collection as searchRelevantChunks finds it
    last,         \* the last searchRelevantChunks call: its arguments and its return value
    ask,          \* one ChatController.askQuestion request
    cosine,       \* one calculateCosineSimilarity call: its arguments and its result
    retrievals,   \* history: the searches made so far and the scores each chunk was returned with
    run,          \* one processPDFForScheme call followed through extraction, fallback and chunking
    split,        \* the chunking of one section: options, cursor, chunks
    translation,  \* one TranslationService call: its arguments, the provider's outcome, its result
    chunking,     \* one preprocessAndChunk call: the lines of its text and the chunks it returns
    refine,       \* one refineResponse call: the question type, the answer's sentences, the result
    quality,      \* one chunk in enhanceChunks: its metadata, its keywords, its quality score
    status        \* one getSchemeProcessingStatus call: its position and the counts it has read

vars == <<schemes, store, jobs, nextDoc, cascaded, azure, chunks, last, ask, cosine, retrievals, run, split, translation, chunking, refine, quality, status>>

(***************************************************************************)
(* Bounds of the model.                                                    *)
(***************************************************************************)
NumSchemes == 1
MaxJobs == 3
MaxDocs == 2
MaxChunks == 2

SchemeIds == 1..NumSchemes
JobIds == 1..MaxJobs

(***************************************************************************)
(* The ingestion state.                                                    *)
(***************************************************************************)
NoJob == [pc |-> "idle", schemeId |-> 0, doc |-> 0, kind |-> "none", n |-> 0, simulated |-> FALSE]

\* A job is in progress from the call of processPDFForScheme until it returns.
Running(j) == jobs[j].pc \in {"findScheme", "extract", "chunk", "embed", "insert", "cleanup"}

\* DocumentChunk.find({schemeId}) on the ingestion store.
ChunksOf(s) == {c \in store : c.schemeId = s}

\* DocumentChunk.deleteMany({schemeId}): the collection without the scheme's chunks.
DeleteMany(s) == {c \in store : c.schemeId # s}

\* embeddingService.deleteChunksForScheme: the deleteMany, whose failure is
\* caught and reported in the return value; ok is the database's answer.
DeleteChunksForScheme(s, ok) == IF ok THEN DeleteMany(s) ELSE store

\* The slot of the next processPDFForScheme call.
FreeJob == CHOOSE j \in JobIds : jobs[j].pc = "idle" /\ \A k \in JobIds : jobs[k].pc = "idle" => j <= k
HasFreeJob == \E j \in JobIds : jobs[j].pc = "idle"

\* The call of processPDFForScheme(schemeId, url): the async function runs to
\* its first await, Scheme.findById.
StartJob(s, d, kind) ==
    [jobs EXCEPT ![FreeJob] = [pc |-> "findScheme", schemeId |-> s, doc |-> d, kind |-> kind,
                                n |-> 0, simulated |-> FALSE]]

IngestInit ==
    /\ schemes = [s \in SchemeIds |-> [state |-> "none", pdf |-> 0]]
    /\ store = {}
    /\ jobs = [j \in JobIds |-> NoJob]
    /\ nextDoc = 1
    /\ cascaded = [s \in SchemeIds |-> FALSE]

\* No generateEmbeddings call yet.
AzureIdle == [pc |-> "idle", attempt |-> 0, maxRetries |-> 0, n |-> 0, returned |-> 0, errors |-> <<>>]

\* No searchRelevantChunks call yet.
NoSearch ==
    [called |-> FALSE, success |-> FALSE, query |-> <<>>, schemeId |-> <<>>, language |-> "",
     contentType |-> "", topK |-> 0, minSimilarityScore |-> 0, queryEmbedding |-> <<>>,
     results |-> <<>>, totalChunks |-> 0, calls |-> {}]

\* No calculateCosineSimilarity call yet.
NoCosine == [called |-> FALSE, a |-> <<>>, b |-> <<>>, result |-> 0]

\* No search recorded yet.
NoRetrievals == [count |-> 0, scores |-> <<>>, returned |-> {}, updated |-> TRUE]

\* A text as extractSections sees it after cleanText, which turns every run
\* of whitespace, line breaks included, into one space: a single line.
\* short: fewer than 100 characters; punct: ends with . ! or ?; bullet:
\* starts like a numbered or bulleted item; long: more words than maxChunkSize.
BlankText == [blank |-> TRUE, short |-> TRUE, punct |-> FALSE, bullet |-> FALSE, long |-> FALSE]

\* No processPDFForScheme call followed yet.
NoRun ==
    [pc |-> "idle", location |-> "", exists |-> FALSE, parsesWith |-> 0, pdfText |-> BlankText,
     fetches |-> 0, fetchFailed |-> FALSE, parses |-> 0, text |-> BlankText, fallback |-> FALSE,
     n |-> 0, stored |-> 0, dbError |-> FALSE, success |-> FALSE]

\* No section is being split.
NoSplit ==
    [pc |-> "idle", words |-> <<>>, chunkSize |-> 0, overlap |-> 0,
     minChunkSize |-> 0, maxChunkSize |-> 0, startIndex |-> 0,
     chunks |-> <<>>, iterations |-> 0]

\* No translation call has been made.
NoTranslation ==
    [called |-> FALSE, op |-> "", text |-> [language |-> "en", length |-> 0, blank |-> TRUE],
     fromLang |-> "", toLang |-> "", apiKey |-> FALSE, outcome |-> "",
     result |-> [language |-> "en", length |-> 0, blank |-> TRUE], calls |-> {}]

\* No text is being chunked.
NoChunking == [called |-> FALSE, lines |-> <<>>, chunks |-> <<>>]

\* No answer is being refined.
NoRefine ==
    [called |-> FALSE, questionType |-> "", sentences |-> <<>>,
     result |-> [length |-> 0, truncated |-> FALSE, whole |-> TRUE]]

\* No chunk is being enhanced.
NoQuality ==
    [called |-> FALSE,
     chunk |-> [blank |-> FALSE, wordCount |-> 0, contentType |-> "paragraph",
                language |-> "en"],
     keywords |-> 0, qualityScore |-> 0]

\* No getSchemeProcessingStatus call has been made.
NoStatus ==
    [pc |-> "idle", schemeId |-> 0, totalChunks |-> 0, completedChunks |-> 0,
     pendingChunks |-> 0, failedChunks |-> 0, completionPercentage |-> 0]

\* No askQuestion request yet.
NoAsk ==
    [called |-> FALSE, status |-> 0, message |-> <<>>, schemeId |-> <<>>, language |-> "",
     context |-> <<>>, fallback |-> FALSE, confidence |-> 0, calls |-> {}]

Init ==
    /\ IngestInit
    /\ azure = AzureIdle
    /\ chunks = <<>>
    /\ last = NoSearch
    /\ ask = NoAsk
    /\ cosine = NoCosine
    /\ retrievals = NoRetrievals
    /\ run = NoRun
    /\ split = NoSplit
    /\ translation = NoTranslation
    /\ chunking = NoChunking
    /\ refine = NoRefine
    /\ quality = NoQuality
    /\ status = NoStatus

(***************************************************************************)
(* controllers/scheme.js                                                   *)
(***************************************************************************)
\* createScheme with an uploaded file: the scheme is saved with its pdfFile and
\* the ingestion is started in the background (not awaited).
CreateScheme(s) ==
    /\ UNCHANGED <<azure, chunks, last, ask, cosine, retrievals, run, split, translation, chunking, refine, quality, status>>
    /\ schemes[s].state = "none"
    /\ nextDoc <= MaxDocs
    /\ HasFreeJob
    /\ schemes' = [schemes EXCEPT ![s] = [state |-> "active", pdf |-> nextDoc]]
    /\ jobs' = StartJob(s, nextDoc, "create")
    /\ nextDoc' = nextDoc + 1
    /\ UNCHANGED <<store, cascaded>>

\* updateScheme with a new file: pdfFile is replaced, the scheme's chunks are
\* deleted (the result of deleteChunksForScheme is not looked at) and the
\* ingestion of the new file is started in the background.
UpdateScheme(s) ==
    /\ UNCHANGED <<azure, chunks, last, ask, cosine, retrievals, run, split, translation, chunking, refine, quality, status>>
    /\ schemes[s].state \in {"active", "inactive"}
    /\ nextDoc <= MaxDocs
    /\ HasFreeJob
    /\ \E ok \in BOOLEAN : store' = DeleteChunksForScheme(s, ok)
    /\ schemes' = [schemes EXCEPT ![s].pdf = nextDoc]
    /\ jobs' = StartJob(s, nextDoc, "update")
    /\ nextDoc' = nextDoc + 1
    /\ cascaded' = [cascaded EXCEPT ![s] = FALSE]

\* reprocessPDF: the scheme's chunks are deleted and its current PDF is
\* ingested again; the response waits for the job.
ReprocessPDF(s) ==
    /\ UNCHANGED <<azure, chunks, last, ask, cosine, retrievals, run, split, translation, chunking, refine, quality, status>>
    /\ schemes[s].state \in {"active", "inactive"}
    /\ schemes[s].pdf # 0
    /\ HasFreeJob
    /\ \E ok \in BOOLEAN : store' = DeleteChunksForScheme(s, ok)
    /\ jobs' = StartJob(s, schemes[s].pdf, "reprocess")
    /\ cascaded' = [cascaded EXCEPT ![s] = FALSE]
    /\ UNCHANGED <<schemes, nextDoc>>

\* deleteScheme -> Scheme.softDelete -> findByIdAndUpdate({isActive: false}),
\* whose pre('findOneAndUpdate') hook deletes the chunks and swallows a
\* failure of that delete.
DeleteScheme(s) ==
    /\ UNCHANGED <<azure, chunks, last, ask, cosine, retrievals, run, split, translation, chunking, refine, quality, status>>
    /\ schemes[s].state \in {"active", "inactive"}
    /\ \E ok \in BOOLEAN :
         /\ store' = DeleteChunksForScheme(s, ok)
         /\ cascaded' = [cascaded EXCEPT ![s] = ok]
    /\ schemes' = [schemes EXCEPT ![s].state = "inactive"]
    /\ UNCHANGED <<jobs, nextDoc>>

\* permanentDeleteScheme -> Scheme.permanentDelete: deleteMany, then
\* findByIdAndDelete. A failing deleteMany throws before anything changed.
PermanentDeleteScheme(s) ==
    /\ UNCHANGED <<azure, chunks, last, ask, cosine, retrievals, run, split, translation, chunking, refine, quality, status>>
    /\ schemes[s].state \in {"active", "inactive"}
    /\ store' = DeleteMany(s)
    /\ schemes' = [schemes EXCEPT ![s].state = "gone"]
    /\ cascaded' = [cascaded EXCEPT ![s] = TRUE]
    /\ UNCHANGED <<jobs, nextDoc>>

\* restoreScheme -> Scheme.restore
RestoreScheme(s) ==
    /\ UNCHANGED <<azure, chunks, last, ask, cosine, retrievals, run, split, translation, chunking, refine, quality, status>>
    /\ schemes[s].state = "inactive"
    /\ schemes' = [schemes EXCEPT ![s].state = "active"]
    /\ cascaded' = [cascaded EXCEPT ![s] = FALSE]
    /\ UNCHANGED <<store, jobs, nextDoc>>

(***************************************************************************)
(* services/embeddingService.js: processPDFForScheme, one action per await *)
(***************************************************************************)
\* Any exception inside the try block leads to the catch block's cleanup.
JobThrow(j) == [jobs EXCEPT ![j].pc = "cleanup"]

\* await Scheme.findById(schemeId): a missing scheme is tolerated (scheme?.),
\* a database error throws.
JobFindScheme(j) ==
    /\ UNCHANGED <<azure, chunks, last, ask, cosine, retrievals, run, split, translation, chunking, refine, quality, status>>
    /\ jobs[j].pc = "findScheme"
    /\ \E ok \in BOOLEAN :
         jobs' = IF ok THEN [jobs EXCEPT ![j].pc = "extract"] ELSE JobThrow(j)
    /\ UNCHANGED <<schemes, store, nextDoc, cascaded>>

\* Step 1: extractTextFromPDF, and createFallbackExtraction when it failed or
\* gave no text. For a URL the fallback always succeeds, so this step goes on.
JobExtract(j) ==
    /\ UNCHANGED <<azure, chunks, last, ask, cosine, retrievals, run, split, translation, chunking, refine, quality, status>>
    /\ jobs[j].pc = "extract"
    /\ jobs' = [jobs EXCEPT ![j].pc = "chunk"]
    /\ UNCHANGED <<schemes, store, nextDoc, cascaded>>

\* Step 2: preprocessAndChunk gives n chunks; none, or an exception, throws.
JobChunk(j) ==
    /\ UNCHANGED <<azure, chunks, last, ask, cosine, retrievals, run, split, translation, chunking, refine, quality, status>>
    /\ jobs[j].pc = "chunk"
    /\ \E n \in 0..MaxChunks :
         jobs' = IF n = 0 THEN JobThrow(j) ELSE [jobs EXCEPT ![j].pc = "embed", ![j].n = n]
    /\ UNCHANGED <<schemes, store, nextDoc, cascaded>>

\* aiService.generateEmbeddings: one embedding per text; when the provider
\* call fails the catch block returns random vectors marked simulated.
GenerateEmbeddings(providerOk) == [simulated |-> ~providerOk]

\* Step 3: the embeddings of the chunk texts.
JobEmbed(j) ==
    /\ UNCHANGED <<azure, chunks, last, ask, cosine, retrievals, run, split, translation, chunking, refine, quality, status>>
    /\ jobs[j].pc = "embed"
    /\ \E providerOk \in BOOLEAN :
         jobs' = [jobs EXCEPT ![j].pc = "insert",
                              ![j].simulated = GenerateEmbeddings(providerOk).simulated]
    /\ UNCHANGED <<schemes, store, nextDoc, cascaded>>

\* Step 4: the DocumentChunk records i = 0..k-1 of a job.
DocumentChunks(j, k) ==
    {[job |-> j, schemeId |-> jobs[j].schemeId, chunkIndex |-> i, doc |-> jobs[j].doc,
      simulated |-> jobs[j].simulated, processingStatus |-> "completed"] : i \in 0..(k - 1)}

\* Step 5: insertMany (ordered): all n documents, or the first k < n when a
\* write fails, which throws.
JobInsert(j) ==
    /\ UNCHANGED <<azure, chunks, last, ask, cosine, retrievals, run, split, translation, chunking, refine, quality, status>>
    /\ jobs[j].pc = "insert"
    /\ \E k \in 0..jobs[j].n :
         /\ store' = store \cup DocumentChunks(j, k)
         /\ jobs' = IF k = jobs[j].n THEN [jobs EXCEPT ![j].pc = "succeeded"] ELSE JobThrow(j)
    /\ UNCHANGED <<schemes, nextDoc, cascaded>>

\* The catch block: deleteMany({schemeId}), whose own failure is only logged,
\* then return {success: false}.
JobCleanup(j) ==
    /\ UNCHANGED <<azure, chunks, last, ask, cosine, retrievals, run, split, translation, chunking, refine, quality, status>>
    /\ jobs[j].pc = "cleanup"
    /\ \E ok \in BOOLEAN : store' = DeleteChunksForScheme(jobs[j].schemeId, ok)
    /\ jobs' = [jobs EXCEPT ![j].pc = "failed"]
    /\ UNCHANGED <<schemes, nextDoc, cascaded>>

Next ==
    \/ \E s \in SchemeIds : CreateScheme(s)
    \/ \E s \in SchemeIds : UpdateScheme(s)
    \/ \E s \in SchemeIds : ReprocessPDF(s)
    \/ \E s \in SchemeIds : DeleteScheme(s)
    \/ \E s \in SchemeIds : PermanentDeleteScheme(s)
    \/ \E s \in SchemeIds : RestoreScheme(s)
    \/ \E j \in JobIds : JobFindScheme(j)
    \/ \E j \in JobIds : JobExtract(j)
    \/ \E j \in JobIds : JobChunk(j)
    \/ \E j \in JobIds : JobEmbed(j)
    \/ \E j \in JobIds : JobInsert(j)
    \/ \E j \in JobIds : JobCleanup(j)

Spec == Init /\ [][Next]_vars

(***************************************************************************)
(* services/azureEmbeddingService.js: generateEmbeddings(textChunks,       *)
(* maxRetries = 3). azure.errors is the sequence of the failed attempts.   *)
(***************************************************************************)
AzureDefaultMaxRetries == 3
MaxTexts == 2

\* What a failed attempt's error looks like to the catch block: status 429,
\* status >= 500, or anything else (no status, another status, a response of
\* the wrong length, a client that cannot be initialised).
ErrorKinds == {"rateLimit", "serverError", "other"}

\* The call: an empty input throws at once, otherwise the loop starts with
\* attempt = 1; with maxRetries < 1 the loop body never runs and the function
\* ends without a return statement.
AzureCall(n, maxRetries) ==
    /\ UNCHANGED <<schemes, store, jobs, nextDoc, cascaded, chunks, last, ask, cosine, retrievals, run, split, translation, chunking, refine, quality, status>>
    /\ azure.pc = "idle"
    /\ azure' = [AzureIdle EXCEPT !.n = n, !.maxRetries = maxRetries, !.attempt = 1,
                                  !.pc = IF n = 0 THEN "thrown"
                                         ELSE IF 1 <= maxRetries THEN "attempt" ELSE "returnedUndefined"]

\* An attempt whose request succeeds with one embedding per input: return.
AzureAttemptOk ==
    /\ UNCHANGED <<schemes, store, jobs, nextDoc, cascaded, chunks, last, ask, cosine, retrievals, run, split, translation, chunking, refine, quality, status>>
    /\ azure.pc = "attempt"
    /\ azure' = [azure EXCEPT !.pc = "returned", !.returned = azure.n]

\* The loop's next iteration (continue): attempt++ and the loop test; when the
\* test fails the function falls off its end and returns undefined.
AzureContinue(a) ==
    [a EXCEPT !.attempt = a.attempt + 1,
              !.pc = IF a.attempt + 1 <= a.maxRetries THEN "attempt" ELSE "returnedUndefined"]

\* The catch block of an attempt: 429 and >= 500 wait and continue; any other
\* error continues while attempt < maxRetries and throws on the last attempt.
AzureCatch(a, kind) ==
    IF kind = "rateLimit" THEN AzureContinue(a)
    ELSE IF kind = "serverError" THEN AzureContinue(a)
    ELSE IF a.attempt < a.maxRetries THEN AzureContinue(a)
    ELSE [a EXCEPT !.pc = "thrown"]

\* An attempt that fails.
AzureAttemptFail(kind) ==
    /\ UNCHANGED <<schemes, store, jobs, nextDoc, cascaded, chunks, last, ask, cosine, retrievals, run, split, translation, chunking, refine, quality, status>>
    /\ azure.pc = "attempt"
    /\ azure' = AzureCatch([azure EXCEPT !.errors = Append(azure.errors, kind)], kind)

NextAzure ==
    \/ \E n \in 0..MaxTexts, m \in 1..AzureDefaultMaxRetries : AzureCall(n, m)
    \/ AzureAttemptOk
    \/ \E kind \in ErrorKinds : AzureAttemptFail(kind)

SpecAzure == Init /\ [][NextAzure]_vars

(***************************************************************************)
(* Claims about ingestion, checked under Spec.                             *)
(***************************************************************************)
\* C1: when an update's or a reprocess's ingestion returns success, no chunk
\* created by an earlier ingestion of that scheme is still in the store.
C1_ReprocessLeavesOnlyNewChunks ==
    [][\A j \in JobIds :
         (jobs[j].pc = "insert" /\ jobs'[j].pc = "succeeded" /\ jobs[j].kind \in {"update", "reprocess"})
         => \A c \in store' : c.schemeId = jobs[j].schemeId => c.job >= j]_vars

\* C2: when processPDFForScheme returns success: false, the store holds no
\* chunk of that scheme.
C2_FailedIngestionLeavesNoChunks ==
    [][\A j \in JobIds :
         (jobs[j].pc = "cleanup" /\ jobs'[j].pc = "failed")
         => \A c \in store' : c.schemeId # jobs[j].schemeId]_vars

\* C3: no two processPDFForScheme runs for the same scheme are in progress at
\* the same time.
C3_OneIngestionPerScheme ==
    \A j, k \in JobIds :
        (j # k /\ Running(j) /\ Running(k)) => jobs[j].schemeId # jobs[k].schemeId

\* C4: the chunkIndex values of a scheme's stored chunks are 0..n-1, each once.
C4_ChunkIndexDense ==
    \A s \in SchemeIds :
        /\ \A c, d \in ChunksOf(s) : c # d => c.chunkIndex # d.chunkIndex
        /\ {c.chunkIndex : c \in ChunksOf(s)} = 0..(Cardinality(ChunksOf(s)) - 1)

\* C5: after a soft or permanent delete whose cascade removed the scheme's
\* chunks, and until a later restore, update or reprocess request, the store
\* holds no chunk of the scheme.
C5_NoChunksAfterDelete ==
    \A s \in SchemeIds : cascaded[s] => ChunksOf(s) = {}

\* C6: no stored chunk carries a simulated embedding.
C6_NoSimulatedEmbeddingStored ==
    \A c \in store : ~c.simulated

(***************************************************************************)
(* Claims about AzureEmbeddingService, checked under SpecAzure.            *)
(***************************************************************************)
\* C7: generateEmbeddings either returns one embedding per input or throws:
\* whenever the call has ended without throwing, it has returned as many
\* embeddings as it was given texts.
C7_ReturnsAllOrThrows ==
    azure.pc \in {"returned", "returnedUndefined"}
        => (azure.pc = "returned" /\ azure.n > 0 /\ azure.returned = azure.n)

(***************************************************************************)
(* services/semanticSearchService.js: searchRelevantChunks.                *)
(* Similarity scores are kept in hundredths (0.3 is 30) and quality scores *)
(* in tenths (0.5 is 5); the embeddings below have integer norms, so every *)
(* cosine is an exact number of hundredths.                                *)
(***************************************************************************)
DefaultTopK == 5
DefaultMinSimilarityScore == 30
MinQualityScore == 5

NumStored == 3
MaxTopK == 3

\* An optional argument is <<>> when the caller leaves it out and <<v>> when
\* the caller passes v; a destructuring default applies only when it is left out.
OptionOr(opt, default) == IF opt = <<>> THEN default ELSE opt[1]

Embeddings == {<<1, 0>>, <<4, 3>>, <<1, 0, 0>>}
QueryEmbeddings == {<<1, 0>>, <<3, 4>>}
Queries == {<<>>, <<" ">>, <<"a">>}
SchemeFilters == {<<>>, <<1>>}
TopKOptions == {<<>>} \cup {<<k>> : k \in -1..MaxTopK}
MinSimilarityOptions == {<<>>, <<0>>, <<90>>}
MetadataFilters == {[language |-> "", contentType |-> ""],
                    [language |-> "en", contentType |-> "paragraph"]}

\* Documents the DocumentChunk schema admits. Chunk is what ingestion stores
\* (completed, default quality); the others are a chunk of low quality, one
\* at the quality limit, one not completed, and a Marathi heading of another scheme.
Chunk(e) ==
    [schemeId |-> 1, embedding |-> e, qualityScore |-> 8, processingStatus |-> "completed",
     language |-> "en", contentType |-> "paragraph"]
Catalogue ==
    {Chunk(e) : e \in Embeddings}
    \cup {[Chunk(<<1, 0>>) EXCEPT !.qualityScore = q] : q \in {4, 5}}
    \cup {[Chunk(<<1, 0>>) EXCEPT !.processingStatus = "pending"],
          [Chunk(<<1, 0>>) EXCEPT !.schemeId = 2, !.language = "mr", !.contentType = "heading"]}

NoUsage == [retrievalCount |-> 0, avgRelevanceScore |-> 0, lastRetrievedAt |-> 0]

\* The collection in natural order; _id is the position.
Stores ==
    {[i \in 1..NumStored |->
        [id |-> i, schemeId |-> f[i].schemeId, embedding |-> f[i].embedding,
         qualityScore |-> f[i].qualityScore, processingStatus |-> f[i].processingStatus,
         language |-> f[i].language, contentType |-> f[i].contentType, usageStats |-> NoUsage]]
     : f \in [1..NumStored -> Catalogue]}

SearchInit ==
    /\ IngestInit
    /\ azure = AzureIdle
    /\ chunks \in Stores
    /\ last = NoSearch
    /\ ask = NoAsk
    /\ cosine = NoCosine
    /\ retrievals = NoRetrievals
    /\ run = NoRun
    /\ split = NoSplit
    /\ translation = NoTranslation
    /\ chunking = NoChunking
    /\ refine = NoRefine
    /\ quality = NoQuality
    /\ status = NoStatus

\* query.length === 0, without the trim.
IsEmpty(query) == query = <<>>

\* !query || query.trim().length === 0
IsBlank(query) == \A i \in 1..Len(query) : query[i] = " "

RECURSIVE DotProduct(_, _, _)
DotProduct(a, b, i) == IF i = 0 THEN 0 ELSE a[i] * b[i] + DotProduct(a, b, i - 1)

\* Math.sqrt on the norms that occur, all perfect squares.
Sqrt(n) == CHOOSE r \in 0..n : r * r = n

\* The quotient without the square roots: dot / (normA * normB).
CosineOfSquaredNorms(vectorA, vectorB) ==
    IF Len(vectorA) # Len(vectorB) THEN 0
    ELSE LET dotProduct == DotProduct(vectorA, vectorB, Len(vectorA))
             normA == DotProduct(vectorA, vectorA, Len(vectorA))
             normB == DotProduct(vectorB, vectorB, Len(vectorB))
             magnitude == normA * normB
         IN  IF magnitude = 0 THEN 0 ELSE (100 * dotProduct) \div magnitude

\* calculateCosineSimilarity, in hundredths.
CalculateCosineSimilarity(vectorA, vectorB) ==
    IF Len(vectorA) # Len(vectorB) THEN 0
    ELSE LET dotProduct == DotProduct(vectorA, vectorB, Len(vectorA))
             normA == DotProduct(vectorA, vectorA, Len(vectorA))
             normB == DotProduct(vectorB, vectorB, Len(vectorB))
             magnitude == Sqrt(normA) * Sqrt(normB)
         IN  IF magnitude = 0 THEN 0 ELSE (100 * dotProduct) \div magnitude

\* The Mongo filter of step 3.
MatchesNoQuality(c, schemeId, language, contentType) ==
    /\ c.processingStatus = "completed"
    /\ schemeId # <<>> => c.schemeId = schemeId[1]
    /\ language # "" => c.language = language
    /\ contentType # "" => c.contentType = contentType

Matches(c, schemeId, language, contentType) ==
    /\ c.processingStatus = "completed"
    /\ c.qualityScore >= MinQualityScore
    /\ schemeId # <<>> => c.schemeId = schemeId[1]
    /\ language # "" => c.language = language
    /\ contentType # "" => c.contentType = contentType

\* DocumentChunk.find(filter), step 4.
Find(schemeId, language, contentType) ==
    LET Test(c) == Matches(c, schemeId, language, contentType)
    IN  SelectSeq(chunks, Test)

\* calculateSimilarityScores, step 5.
CalculateSimilarityScores(found, queryEmbedding) ==
    [i \in 1..Len(found) |->
        [id |-> found[i].id,
         similarityScore |-> CalculateCosineSimilarity(queryEmbedding, found[i].embedding)]]

\* Array.prototype.sort with (a, b) => b.similarityScore - a.similarityScore: stable, descending.
RECURSIVE InsertByScore(_, _)
InsertByScore(s, x) ==
    IF s = <<>> THEN <<x>>
    ELSE IF Head(s).similarityScore >= x.similarityScore
         THEN <<Head(s)>> \o InsertByScore(Tail(s), x)
         ELSE <<x>> \o s

RECURSIVE SortByScore(_)
SortByScore(s) ==
    IF s = <<>> THEN <<>>
    ELSE InsertByScore(SortByScore(SubSeq(s, 1, Len(s) - 1)), s[Len(s)])

\* Array.prototype.slice(0, end): a negative end counts from the end of the array.
Slice(s, end) ==
    LET k == IF end < 0
             THEN (IF Len(s) + end > 0 THEN Len(s) + end ELSE 0)
             ELSE (IF end < Len(s) THEN end ELSE Len(s))
    IN  SubSeq(s, 1, k)

\* Step 6: filter, sort, slice.
FilteredResults(chunksWithScores, topK, minSimilarityScore) ==
    LET Above(c) == c.similarityScore >= minSimilarityScore
    IN  Slice(SortByScore(SelectSeq(chunksWithScores, Above)), topK)

\* What the call returns as results for the given arguments and query embedding.
ResultsOf(schemeId, language, contentType, queryEmbedding, topK, minSimilarityScore) ==
    FilteredResults(CalculateSimilarityScores(Find(schemeId, language, contentType), queryEmbedding),
                    topK, minSimilarityScore)

\* calculateRunningAverage.
CalculateRunningAverage(currentAverage, currentCount, newValue) ==
    IF currentCount = 0 THEN newValue
    ELSE (currentAverage * currentCount + newValue) \div (currentCount + 1)

\* An update that writes the found document back: the projection carries no
\* processingStatus, so the schema default replaces it.
ReplaceRetrievedChunks(results) ==
    [i \in 1..Len(chunks) |->
        IF \E r \in 1..Len(results) : results[r].id = chunks[i].id
        THEN [chunks[i] EXCEPT !.processingStatus = "pending",
                               !.usageStats.retrievalCount = @ + 1]
        ELSE chunks[i]]

\* updateUsageStatistics: the found chunks carry no usageStats (the projection
\* leaves it out), so the average is computed from 0 and 0; of the two $set
\* keys of the update literal the second one stands, so lastRetrievedAt stays.
UpdateUsageStatistics(results) ==
    [i \in 1..Len(chunks) |->
        IF \E r \in 1..Len(results) : results[r].id = chunks[i].id
        THEN LET r == CHOOSE r \in 1..Len(results) : results[r].id = chunks[i].id
             IN  [chunks[i] EXCEPT !.usageStats =
                    [retrievalCount |-> @.retrievalCount + 1,
                     avgRelevanceScore |-> CalculateRunningAverage(0, 0, results[r].similarityScore),
                     lastRetrievedAt |-> @.lastRetrievedAt]]
        ELSE chunks[i]]

\* A blank query is rejected at once.
SearchRejected ==
    /\ UNCHANGED <<schemes, store, jobs, nextDoc, cascaded, azure, ask, cosine, retrievals, run, split, translation, chunking, refine, quality, status>>
    /\ ~last.called /\ ~ask.called
    /\ \E query \in Queries :
        /\ IsBlank(query)
        /\ last' = [NoSearch EXCEPT !.called = TRUE, !.query = query]
    /\ UNCHANGED chunks

\* An exception inside the try block (the embedding call or the find) is
\* caught: success is false and results are empty. calls are the provider
\* and database calls made by then.
SearchThrows ==
    /\ UNCHANGED <<schemes, store, jobs, nextDoc, cascaded, azure, ask, cosine, retrievals, run, split, translation, chunking, refine, quality, status>>
    /\ ~last.called /\ ~ask.called
    /\ \E query \in Queries :
        /\ ~IsBlank(query)
        /\ \E calls \in {{"translate", "embed"}, {"translate", "embed", "find"}} :
              last' = [NoSearch EXCEPT !.called = TRUE, !.query = query, !.calls = calls]
    /\ UNCHANGED chunks

\* searchRelevantChunks(query, schemeId, {topK, minSimilarityScore, language,
\* contentType}) running to its return; the provider answers with
\* queryEmbedding; statsOk is whether the usage-statistics update reaches the
\* database (its failure is only logged). One call is followed per behaviour;
\* calls are the provider and database calls it made.
Search ==
    /\ UNCHANGED <<schemes, store, jobs, nextDoc, cascaded, azure, ask, cosine, retrievals, run, split, translation, chunking, refine, quality, status>>
    /\ ~last.called /\ ~ask.called
    /\ \E query \in Queries, schemeId \in SchemeFilters, optTopK \in TopKOptions,
          optMin \in MinSimilarityOptions, meta \in MetadataFilters,
          queryEmbedding \in QueryEmbeddings, statsOk \in BOOLEAN :
        /\ ~IsBlank(query)
        /\ LET topK == OptionOr(optTopK, DefaultTopK)
               minSimilarityScore == OptionOr(optMin, DefaultMinSimilarityScore)
               found == Find(schemeId, meta.language, meta.contentType)
               results == IF found = <<>> THEN <<>>
                          ELSE ResultsOf(schemeId, meta.language, meta.contentType, queryEmbedding,
                                         topK, minSimilarityScore)
           IN  /\ last' = [called |-> TRUE, success |-> TRUE, query |-> query, schemeId |-> schemeId,
                           language |-> meta.language, contentType |-> meta.contentType,
                           topK |-> topK, minSimilarityScore |-> minSimilarityScore,
                           queryEmbedding |-> queryEmbedding, results |-> results,
                           totalChunks |-> Len(found),
                           calls |-> {"translate", "embed", "find"}
                                     \cup (IF results # <<>> THEN {"update"} ELSE {})]
               /\ chunks' = IF statsOk THEN UpdateUsageStatistics(results) ELSE chunks

NextSearch ==
    \/ SearchRejected
    \/ SearchThrows
    \/ Search

SpecSearch == SearchInit /\ [][NextSearch]_vars

(***************************************************************************)
(* Claims about searchRelevantChunks, checked under SpecSearch.            *)
(***************************************************************************)
\* The stored chunk a result entry stands for.
ChunkOf(r) == chunks[r.id]

\* C8: a successful search returns no chunk whose qualityScore is below 0.5
\* and no chunk whose processingStatus is not 'completed'.
C8_OnlyQualityCompletedReturned ==
    last.success =>
        \A r \in 1..Len(last.results) :
            /\ ChunkOf(last.results[r]).qualityScore >= 5
            /\ ChunkOf(last.results[r]).processingStatus = "completed"

\* C8 witness: a search returned results with room left under topK while the
\* store holds a chunk of quality below 0.5, and a chunk that is not
\* completed, each scoring at least as high as every returned chunk.
C8_Witness ==
    /\ last.success
    /\ Len(last.results) > 0
    /\ Len(last.results) < last.topK
    /\ last.schemeId = <<>> /\ last.language = "" /\ last.contentType = ""
    /\ \E i, j \in 1..Len(chunks) :
        /\ chunks[i].qualityScore < 5
        /\ chunks[j].processingStatus # "completed"
        /\ \A r \in 1..Len(last.results) :
            /\ CalculateCosineSimilarity(last.queryEmbedding, chunks[i].embedding)
                   >= last.results[r].similarityScore
            /\ CalculateCosineSimilarity(last.queryEmbedding, chunks[j].embedding)
                   >= last.results[r].similarityScore

\* C9: with everything else fixed, the number of results does not grow when
\* minSimilarityScore is raised and does not shrink when topK is raised, for
\* every topK a caller can pass, 0 and negative values included.
C9_CountMonotone ==
    (last.success /\ last.totalChunks > 0) =>
        /\ \A m \in {0, 30, 90} :
              m >= last.minSimilarityScore =>
                  Len(ResultsOf(last.schemeId, last.language, last.contentType,
                                last.queryEmbedding, last.topK, m)) <= Len(last.results)
        /\ \A k \in -1..DefaultTopK :
              k >= last.topK =>
                  Len(ResultsOf(last.schemeId, last.language, last.contentType,
                                last.queryEmbedding, k, last.minSimilarityScore)) >= Len(last.results)

\* C10: the results of a successful search all score at least
\* minSimilarityScore, are in non-increasing order of score, are at most topK
\* many (none when topK is 0 or negative), and no chunk that passes the filter and the threshold but is left
\* out scores strictly higher than a returned one.
C10_TopKSortedResults ==
    last.success =>
        LET results == last.results
            returned == {results[r].id : r \in 1..Len(results)}
        IN  /\ \A r \in 1..Len(results) : results[r].similarityScore >= last.minSimilarityScore
            /\ \A r \in 1..(Len(results) - 1) :
                  results[r].similarityScore >= results[r + 1].similarityScore
            /\ Len(results) <= (IF last.topK > 0 THEN last.topK ELSE 0)
            /\ \A i \in 1..Len(chunks) :
                  (/\ chunks[i].id \notin returned
                   /\ Matches(chunks[i], last.schemeId, last.language, last.contentType)
                   /\ CalculateCosineSimilarity(last.queryEmbedding, chunks[i].embedding)
                          >= last.minSimilarityScore)
                  => \A r \in 1..Len(results) :
                        CalculateCosineSimilarity(last.queryEmbedding, chunks[i].embedding)
                            <= results[r].similarityScore

(***************************************************************************)
(* controllers/chat.js askQuestion and services/aiService.js               *)
(* generateResponse. A context is the sequence of the lengths of its       *)
(* texts; confidences are in hundredths.                                   *)
(***************************************************************************)
FallbackConfidence == 30

Messages == {<<>>, <<" ">>, <<"a">>}
AskSchemeIds == {<<>>, <<1>>}
AskLanguages == {"en", "mr"}
\* Lengths of the scheme's basic-information text and of a chunk's text.
InfoLengths == {100, 533}
ContentLengths == {100, 1000}

RECURSIVE SumLengths(_, _)
SumLengths(context, i) == IF i = 0 THEN 0 ELSE context[i] + SumLengths(context, i - 1)

\* calculateConfidence: min(0.9, avgLength / 1000 * 0.3 + sourceCount / 5 * 0.7)
\* rounded to hundredths, 0 for an empty context. In hundredths the sum is
\* (3 * total + 1400 * n * n) / (100 * n); Math.round rounds a half upwards.
CalculateConfidence(context) ==
    IF Len(context) = 0 THEN 0
    ELSE LET n == Len(context)
             total == SumLengths(context, n)
             numerator == 3 * total + 1400 * n * n
         IN  IF numerator >= 90 * 100 * n THEN 90
             ELSE (2 * numerator + 100 * n) \div (200 * n)

\* generateResponse: the model's answer carries calculateConfidence of the
\* context, the fallback answer of the catch block carries 0.3.
GenerateResponse(context, modelOk) ==
    [fallback |-> ~modelOk,
     confidence |-> IF modelOk THEN CalculateConfidence(context) ELSE FallbackConfidence]

\* A missing or blank message is answered with status 400 at once.
AskRejected ==
    /\ UNCHANGED <<schemes, store, jobs, nextDoc, cascaded, azure, cosine, retrievals, run, split, translation, chunking, refine, quality, status>>
    /\ ~ask.called /\ ~last.called
    /\ \E message \in Messages :
        /\ IsBlank(message)
        /\ ask' = [NoAsk EXCEPT !.called = TRUE, !.status = 400, !.message = message]
    /\ UNCHANGED <<chunks, last>>

\* askQuestion without a scheme: no schemeId in the body, or findById finds
\* none (or throws): the context is empty and no search is made.
AskNoScheme ==
    /\ UNCHANGED <<schemes, store, jobs, nextDoc, cascaded, azure, cosine, retrievals, run, split, translation, chunking, refine, quality, status>>
    /\ ~ask.called /\ ~last.called
    /\ \E message \in Messages, schemeId \in AskSchemeIds, language \in AskLanguages,
          modelOk \in BOOLEAN :
        /\ ~IsBlank(message)
        /\ LET response == GenerateResponse(<<>>, modelOk)
           IN  ask' = [called |-> TRUE, status |-> 200, message |-> message, schemeId |-> schemeId,
                       language |-> language, context |-> <<>>, fallback |-> response.fallback,
                       confidence |-> response.confidence,
                       calls |-> (IF schemeId # <<>> THEN {"findScheme"} ELSE {})
                                 \cup {"generate"}
                                 \cup (IF language # "en" THEN {"translateResponse"} ELSE {})]
    /\ UNCHANGED <<chunks, last>>

\* askQuestion for a scheme that is found: the context is the scheme's basic
\* information and the chunks searchRelevantChunks returns for topK 5,
\* minSimilarityScore 0.3 and the request's language (none when the search
\* fails); then generateResponse.
Ask ==
    /\ UNCHANGED <<schemes, store, jobs, nextDoc, cascaded, azure, cosine, retrievals, run, split, translation, chunking, refine, quality, status>>
    /\ ~ask.called /\ ~last.called
    /\ \E message \in Messages, schemeId \in AskSchemeIds, language \in AskLanguages,
          queryEmbedding \in QueryEmbeddings, searchOk \in BOOLEAN, statsOk \in BOOLEAN,
          modelOk \in BOOLEAN, info \in InfoLengths :
        /\ ~IsBlank(message)
        /\ schemeId # <<>>
        /\ ~searchOk => statsOk
        /\ LET found == Find(schemeId, language, "")
               results == IF found = <<>> \/ ~searchOk THEN <<>>
                          ELSE ResultsOf(schemeId, language, "", queryEmbedding, 5, 30)
           IN  /\ last' = IF searchOk
                          THEN [called |-> TRUE, success |-> TRUE, query |-> message,
                                schemeId |-> schemeId, language |-> language, contentType |-> "",
                                topK |-> 5, minSimilarityScore |-> 30,
                                queryEmbedding |-> queryEmbedding, results |-> results,
                                totalChunks |-> Len(found),
                                calls |-> {"translate", "embed", "find"}
                                          \cup (IF results # <<>> THEN {"update"} ELSE {})]
                          ELSE [NoSearch EXCEPT !.called = TRUE, !.query = message,
                                                !.calls = {"translate", "embed"}]
               /\ chunks' = IF statsOk THEN UpdateUsageStatistics(results) ELSE chunks
               /\ \E contents \in [1..Len(results) -> ContentLengths] :
                     LET context == <<info>> \o [i \in 1..Len(results) |-> contents[i]]
                         response == GenerateResponse(context, modelOk)
                     IN  ask' = [called |-> TRUE, status |-> 200, message |-> message,
                                 schemeId |-> schemeId, language |-> language,
                                 context |-> context, fallback |-> response.fallback,
                                 confidence |-> response.confidence,
                                 calls |-> {"findScheme", "search", "generate"}
                                           \cup (IF language # "en" THEN {"translateResponse"}
                                                 ELSE {})]

NextAsk ==
    \/ SearchRejected
    \/ SearchThrows
    \/ Search
    \/ AskRejected
    \/ AskNoScheme
    \/ Ask

SpecAsk == SearchInit /\ [][NextAsk]_vars

(***************************************************************************)
(* Claims about blank queries and the confidence of an answer, checked     *)
(* under SpecAsk.                                                          *)
(***************************************************************************)
\* C11: a searchRelevantChunks call with an empty or whitespace-only query,
\* and an askQuestion request with an empty or whitespace-only message, make
\* no provider call and no database call and leave the chunk store as it was.
C11_BlankQueryRejectedBeforeCalls ==
    [][/\ (~last.called /\ last'.called /\ last'.query \in {<<>>, <<" ">>})
            => (~last'.success /\ last'.calls = {} /\ chunks' = chunks /\ ask' = ask)
       /\ (~ask.called /\ ask'.called /\ ask'.message \in {<<>>, <<" ">>})
            => (ask'.status = 400 /\ ask'.calls = {} /\ chunks' = chunks /\ last' = last)]_vars

\* C11 witness: a whitespace-only message has been rejected.
C11_Witness ==
    /\ ask.called
    /\ ask.message = <<" ">>
    /\ ask.status = 400

(***************************************************************************)
(* Further claims about searchRelevantChunks, checked under SpecSearch.    *)
(***************************************************************************)
\* C12: a stored chunk whose embedding has another dimension than the query
\* embedding scores 0 and is not among the results of a successful search,
\* whatever minSimilarityScore the caller passed.
C12_DimensionMismatchExcluded ==
    last.success =>
        \A i \in 1..Len(chunks) :
            Len(chunks[i].embedding) # Len(last.queryEmbedding) =>
                /\ CalculateCosineSimilarity(last.queryEmbedding, chunks[i].embedding) = 0
                /\ \A r \in 1..Len(last.results) : last.results[r].id # chunks[i].id

(***************************************************************************)
(* calculateCosineSimilarity as a function of its two arguments, over the  *)
(* integer vectors of bounded dimension and coordinates whose norm is an   *)
(* integer: on them Math.sqrt and the product of the magnitudes are exact. *)
(***************************************************************************)
MaxDim == 2
MaxCoord == 4

IsSquare(n) == \E r \in 0..n : r * r = n

Vectors ==
    UNION {{v \in [1..dim -> -MaxCoord..MaxCoord] : IsSquare(DotProduct(v, v, dim))}
           : dim \in 1..MaxDim}

CosineInit ==
    /\ IngestInit
    /\ azure = AzureIdle
    /\ chunks = <<>>
    /\ last = NoSearch
    /\ ask = NoAsk
    /\ run = NoRun
    /\ split = NoSplit
    /\ translation = NoTranslation
    /\ chunking = NoChunking
    /\ refine = NoRefine
    /\ quality = NoQuality
    /\ status = NoStatus
    /\ \E a \in Vectors, b \in Vectors : cosine = [NoCosine EXCEPT !.a = a, !.b = b]
    /\ retrievals = NoRetrievals

\* calculateCosineSimilarity(a, b) is called and returns.
ComputeCosine ==
    /\ UNCHANGED <<schemes, store, jobs, nextDoc, cascaded, azure, chunks, last, ask, retrievals, run, split, translation, chunking, refine, quality, status>>
    /\ ~cosine.called
    /\ cosine' = [cosine EXCEPT !.called = TRUE, !.result = CalculateCosineSimilarity(cosine.a, cosine.b)]

NextCosine ==
    \/ ComputeCosine

SpecCosine == CosineInit /\ [][NextCosine]_vars

MaxSearches == 2

UsageTopKOptions == {<<>>, <<1>>}

UsageStores ==
    {[i \in 1..NumStored |->
        [id |-> i, schemeId |-> f[i].schemeId, embedding |-> f[i].embedding,
         qualityScore |-> f[i].qualityScore, processingStatus |-> f[i].processingStatus,
         language |-> f[i].language, contentType |-> f[i].contentType, usageStats |-> NoUsage]]
     : f \in [1..NumStored -> {Chunk(<<1, 0>>), Chunk(<<4, 3>>)}]}

UsageInit ==
    /\ IngestInit
    /\ azure = AzureIdle
    /\ chunks \in UsageStores
    /\ last = NoSearch
    /\ ask = NoAsk
    /\ cosine = NoCosine
    /\ run = NoRun
    /\ split = NoSplit
    /\ translation = NoTranslation
    /\ chunking = NoChunking
    /\ refine = NoRefine
    /\ quality = NoQuality
    /\ status = NoStatus
    /\ retrievals = [NoRetrievals EXCEPT !.scores = [i \in 1..NumStored |-> <<>>]]

\* One more searchRelevantChunks(query, null, {topK}) call running to its
\* return. retrievals keeps, for every chunk, the scores it was returned
\* with, the chunks of this call, and whether every usage-statistics update
\* so far reached the database.
Retrieve ==
    /\ UNCHANGED <<schemes, store, jobs, nextDoc, cascaded, azure, ask, cosine, run, split, translation, chunking, refine, quality, status>>
    /\ retrievals.count < MaxSearches
    /\ \E optTopK \in UsageTopKOptions, queryEmbedding \in QueryEmbeddings, statsOk \in BOOLEAN :
        LET topK == OptionOr(optTopK, DefaultTopK)
            found == Find(<<>>, "", "")
            results == IF found = <<>> THEN <<>>
                       ELSE ResultsOf(<<>>, "", "", queryEmbedding, topK, DefaultMinSimilarityScore)
            returned == {results[r].id : r \in 1..Len(results)}
        IN  /\ last' = [called |-> TRUE, success |-> TRUE, query |-> <<"a">>, schemeId |-> <<>>,
                        language |-> "", contentType |-> "",
                        topK |-> topK, minSimilarityScore |-> DefaultMinSimilarityScore,
                        queryEmbedding |-> queryEmbedding, results |-> results,
                        totalChunks |-> Len(found),
                        calls |-> {"translate", "embed", "find"}
                                  \cup (IF results # <<>> THEN {"update"} ELSE {})]
            /\ chunks' = IF statsOk THEN UpdateUsageStatistics(results) ELSE chunks
            /\ retrievals' =
                  [count |-> retrievals.count + 1,
                   scores |-> [i \in 1..Len(chunks) |->
                                 IF chunks[i].id \in returned
                                 THEN Append(retrievals.scores[i],
                                             CalculateCosineSimilarity(queryEmbedding,
                                                                       chunks[i].embedding))
                                 ELSE retrievals.scores[i]],
                   returned |-> returned,
                   updated |-> retrievals.updated /\ statsOk]

NextUsage ==
    \/ Retrieve

SpecUsage == UsageInit /\ [][NextUsage]_vars

RECURSIVE SumScores(_, _)
SumScores(scores, i) == IF i = 0 THEN 0 ELSE scores[i] + SumScores(scores, i - 1)

\* C14: when every usage-statistics update reached the database, the stored
\* avgRelevanceScore of a chunk returned by n searches is the arithmetic mean
\* of the n scores it was returned with.
C14_RunningAverageIsMean ==
    retrievals.updated =>
        \A i \in 1..Len(chunks) :
            Len(retrievals.scores[i]) > 0 =>
                chunks[i].usageStats.avgRelevanceScore * Len(retrievals.scores[i])
                    = SumScores(retrievals.scores[i], Len(retrievals.scores[i]))

\* C15: a search whose usage-statistics update reached the database raises
\* the retrievalCount of every chunk it returned by exactly 1 and sets its
\* lastRetrievedAt to the time of the search; every other chunk keeps both.
C15_RetrievalCountAndTime ==
    [][(retrievals'.count = retrievals.count + 1 /\ retrievals'.updated) =>
          \A i \in 1..Len(chunks) :
              IF chunks[i].id \in retrievals'.returned
              THEN /\ chunks'[i].usageStats.retrievalCount
                          = chunks[i].usageStats.retrievalCount + 1
                   /\ chunks'[i].usageStats.lastRetrievedAt = retrievals'.count
              ELSE /\ chunks'[i].usageStats.retrievalCount = chunks[i].usageStats.retrievalCount
                   /\ chunks'[i].usageStats.lastRetrievedAt = chunks[i].usageStats.lastRetrievedAt]_vars

(***************************************************************************)
(* One processPDFForScheme call in detail: services/pdfExtractionService.js*)
(* extractTextFromPDF, fetchPDFFromCloud and createFallbackExtraction,     *)
(* services/textPreprocessingService.js extractSections, and the steps of  *)
(* services/embeddingService.js around them.                               *)
(***************************************************************************)
FetchRetries == 3
ParserConfigurations == 3

\* The text createFallbackExtraction returns: long, starting with
\* "[PDF Document:" and ending with "this document."
PlaceholderText == [blank |-> FALSE, short |-> FALSE, punct |-> TRUE, bullet |-> FALSE, long |-> FALSE]

Texts ==
    {BlankText}
    \cup {t \in [blank : {FALSE}, short : BOOLEAN, punct : BOOLEAN, bullet : BOOLEAN, long : BOOLEAN]
            : ~(t.short /\ t.long)}

\* A fallback that always fails.
NoFallbackExtraction(location, exists) == [success |-> FALSE, text |-> BlankText]

\* createFallbackExtraction: for a URL nothing can fail; for a local path
\* fs.stat fails when the file does not exist.
CreateFallbackExtraction(location, exists) ==
    IF location = "cloud" \/ exists
    THEN [success |-> TRUE, text |-> PlaceholderText]
    ELSE [success |-> FALSE, text |-> BlankText]

\* isHeading for the only line of a text.
IsHeading(text) ==
    \/ text.short /\ ~text.punct
    \/ text.bullet

\* extractSections: the number of sections of a one-line text.
ExtractSections(text) == IF IsHeading(text) THEN 0 ELSE 1

IngestRunInit ==
    /\ IngestInit
    /\ azure = AzureIdle
    /\ chunks = <<>>
    /\ last = NoSearch
    /\ ask = NoAsk
    /\ cosine = NoCosine
    /\ retrievals = NoRetrievals
    /\ split = NoSplit
    /\ translation = NoTranslation
    /\ chunking = NoChunking
    /\ refine = NoRefine
    /\ quality = NoQuality
    /\ status = NoStatus
    /\ \E location \in {"cloud", "local"}, exists \in BOOLEAN,
          parsesWith \in 0..ParserConfigurations, pdfText \in Texts :
        /\ location = "cloud" => exists
        /\ parsesWith = 0 => pdfText = BlankText
        /\ run = [NoRun EXCEPT !.pc = "findScheme", !.location = location, !.exists = exists,
                               !.parsesWith = parsesWith, !.pdfText = pdfText]

\* Scheme.findById; an error goes to the catch block.
RunFindScheme ==
    /\ UNCHANGED <<schemes, store, jobs, nextDoc, cascaded, azure, chunks, last, ask, cosine, retrievals, split, translation, chunking, refine, quality, status>>
    /\ run.pc = "findScheme"
    /\ \E ok \in BOOLEAN :
        run' = IF ok THEN [run EXCEPT !.pc = IF run.location = "cloud" THEN "fetch" ELSE "read"]
               ELSE [run EXCEPT !.pc = "cleanup", !.dbError = TRUE]

\* fetchPDFFromCloud, an attempt that answers: the buffer is accepted, or it
\* is too small or too large and the function throws.
RunFetchOk ==
    /\ UNCHANGED <<schemes, store, jobs, nextDoc, cascaded, azure, chunks, last, ask, cosine, retrievals, split, translation, chunking, refine, quality, status>>
    /\ run.pc = "fetch"
    /\ \E bufferOk \in BOOLEAN :
        run' = [run EXCEPT !.fetches = @ + 1, !.pc = IF bufferOk THEN "parse" ELSE "fallback"]

\* fetchPDFFromCloud, an attempt that fails: retried until the attempts are
\* used up, then the error is thrown and extractTextFromPDF returns success: false.
RunFetchError ==
    /\ UNCHANGED <<schemes, store, jobs, nextDoc, cascaded, azure, chunks, last, ask, cosine, retrievals, split, translation, chunking, refine, quality, status>>
    /\ run.pc = "fetch"
    /\ run' = IF run.fetches + 1 = FetchRetries
              THEN [run EXCEPT !.fetches = @ + 1, !.fetchFailed = TRUE, !.pc = "fallback"]
              ELSE [run EXCEPT !.fetches = @ + 1]

\* validateFile and fs.readFile for a local path.
RunReadLocal ==
    /\ UNCHANGED <<schemes, store, jobs, nextDoc, cascaded, azure, chunks, last, ask, cosine, retrievals, split, translation, chunking, refine, quality, status>>
    /\ run.pc = "read"
    /\ run' = [run EXCEPT !.pc = IF run.exists THEN "parse" ELSE "fallback"]

\* pdfParse with the standard, the alternative and the minimal options. When
\* all fail extractTextFromPDF returns success: false; a blank text is
\* returned with success: true; both lead processPDFForScheme to the fallback.
RunParse ==
    /\ UNCHANGED <<schemes, store, jobs, nextDoc, cascaded, azure, chunks, last, ask, cosine, retrievals, split, translation, chunking, refine, quality, status>>
    /\ run.pc = "parse"
    /\ run' = IF run.parsesWith = 0
              THEN [run EXCEPT !.parses = ParserConfigurations, !.pc = "fallback"]
              ELSE IF run.pdfText.blank
                   THEN [run EXCEPT !.parses = run.parsesWith, !.pc = "fallback"]
                   ELSE [run EXCEPT !.parses = run.parsesWith, !.text = run.pdfText, !.pc = "chunk"]

\* createFallbackExtraction in processPDFForScheme; its failure is thrown.
RunFallback ==
    /\ UNCHANGED <<schemes, store, jobs, nextDoc, cascaded, azure, chunks, last, ask, cosine, retrievals, split, translation, chunking, refine, quality, status>>
    /\ run.pc = "fallback"
    /\ LET extractionResult == CreateFallbackExtraction(run.location, run.exists)
       IN  run' = IF extractionResult.success
                  THEN [run EXCEPT !.text = extractionResult.text, !.fallback = TRUE, !.pc = "chunk"]
                  ELSE [run EXCEPT !.pc = "cleanup"]

\* preprocessAndChunk: no section gives no chunk and processPDFForScheme
\* throws; a section of at most maxChunkSize words is one chunk; a longer one
\* is split into several.
RunChunk ==
    /\ UNCHANGED <<schemes, store, jobs, nextDoc, cascaded, azure, chunks, last, ask, cosine, retrievals, split, translation, chunking, refine, quality, status>>
    /\ run.pc = "chunk"
    /\ \E n \in 1..MaxChunks :
        /\ ~run.text.long => n = 1
        /\ run' = IF ExtractSections(run.text) = 0
                  THEN [run EXCEPT !.pc = "cleanup"]
                  ELSE [run EXCEPT !.n = n, !.pc = "embed"]

\* aiService.generateEmbeddings returns one embedding per chunk and never throws.
RunEmbed ==
    /\ UNCHANGED <<schemes, store, jobs, nextDoc, cascaded, azure, chunks, last, ask, cosine, retrievals, split, translation, chunking, refine, quality, status>>
    /\ run.pc = "embed"
    /\ run' = [run EXCEPT !.pc = "insert"]

\* insertMany stores the chunks in order and may fail after k of them.
RunInsert ==
    /\ UNCHANGED <<schemes, store, jobs, nextDoc, cascaded, azure, chunks, last, ask, cosine, retrievals, split, translation, chunking, refine, quality, status>>
    /\ run.pc = "insert"
    /\ \E k \in 0..run.n :
        run' = IF k = run.n
               THEN [run EXCEPT !.stored = k, !.success = TRUE, !.pc = "done"]
               ELSE [run EXCEPT !.stored = k, !.dbError = TRUE, !.pc = "cleanup"]

\* The catch block: deleteMany, whose failure is only logged, then success: false.
RunCleanup ==
    /\ UNCHANGED <<schemes, store, jobs, nextDoc, cascaded, azure, chunks, last, ask, cosine, retrievals, split, translation, chunking, refine, quality, status>>
    /\ run.pc = "cleanup"
    /\ \E ok \in BOOLEAN :
        run' = [run EXCEPT !.stored = IF ok THEN 0 ELSE @, !.pc = "done"]

NextRun ==
    \/ RunFindScheme
    \/ RunFetchOk
    \/ RunFetchError
    \/ RunReadLocal
    \/ RunParse
    \/ RunFallback
    \/ RunChunk
    \/ RunEmbed
    \/ RunInsert
    \/ RunCleanup

SpecRun == IngestRunInit /\ [][NextRun]_vars

\* C16: a PDF that was read and has no extractable text, or that no parser
\* configuration can parse, is ingested with success: true and at least one
\* chunk, the chunks being those of the placeholder text, unless a database
\* call failed; the call always returns.
C16_FallbackChunkForTextlessPDF ==
    (/\ run.pc = "done"
     /\ run.parses > 0
     /\ run.parsesWith = 0 \/ run.pdfText.blank
     /\ ~run.dbError)
    => (/\ run.success
        /\ run.n >= 1
        /\ run.stored = run.n
        /\ run.fallback /\ run.text = PlaceholderText)

\* C16 witness: an image-only PDF from cloud storage has been ingested.
C16_Witness ==
    /\ run.pc = "done"
    /\ run.location = "cloud"
    /\ run.parsesWith = 1 /\ run.pdfText.blank
    /\ run.success
    /\ run.stored = 1

\* C17: when every attempt to fetch the PDF from cloud storage failed,
\* processPDFForScheme returns success: false and no chunk is stored.
C17_FetchFailureFailsIngestion ==
    (run.pc = "done" /\ run.fetchFailed) => (~run.success /\ run.stored = 0)

(***************************************************************************)
(* TextPreprocessingService.createChunks and splitIntoChunks for one       *)
(* section (services/textPreprocessingService.js), with the options as     *)
(* preprocessAndChunk resolves them.  A word is FALSE when it is a plain   *)
(* word ("a") and TRUE when it ends a sentence ("benefits."); word         *)
(* positions are the code's, counted from 0.                               *)
(***************************************************************************)
DefaultChunkSize == 500
DefaultOverlap == 50
MinChunkSize == 50
MaxChunkSize == 1000

MaxWords == 4
\* Iterations followed of a loop that does not end.
MaxIterations == MaxWords + 1

\* options.x || this.x: the default applies when the option is left out and
\* when it is 0.
OptionOrDefault(opt, default) ==
    IF opt = <<>> \/ opt[1] = 0 THEN default ELSE opt[1]

ChunkSizeOptions == {<<>>, <<-1>>, <<0>>, <<1>>, <<2>>, <<3>>}
OverlapOptions == {<<>>, <<1>>, <<3>>}
MinChunkSizeOptions == {<<>>, <<1>>}
MaxChunkSizeOptions == {<<>>, <<2>>}

WordLists == UNION {[1..n -> BOOLEAN] : n \in 0..MaxWords}

SplitInit ==
    /\ IngestInit
    /\ azure = AzureIdle
    /\ chunks = <<>>
    /\ last = NoSearch
    /\ ask = NoAsk
    /\ cosine = NoCosine
    /\ retrievals = NoRetrievals
    /\ run = NoRun
    /\ translation = NoTranslation
    /\ chunking = NoChunking
    /\ refine = NoRefine
    /\ quality = NoQuality
    /\ status = NoStatus
    /\ \E words \in WordLists, chunkSize \in ChunkSizeOptions,
          overlap \in OverlapOptions, minChunkSize \in MinChunkSizeOptions,
          maxChunkSize \in MaxChunkSizeOptions :
          split = [NoSplit EXCEPT
                     !.pc = "start",
                     !.words = words,
                     !.chunkSize = OptionOrDefault(chunkSize, DefaultChunkSize),
                     !.overlap = OptionOrDefault(overlap, DefaultOverlap),
                     !.minChunkSize = OptionOrDefault(minChunkSize, MinChunkSize),
                     !.maxChunkSize = OptionOrDefault(maxChunkSize, MaxChunkSize)]

Minimum(a, b) == IF a < b THEN a ELSE b
Maximum(a, b) == IF a > b THEN a ELSE b

\* Array.prototype.slice resolves a negative index from the end of the array
\* and clamps both indices to 0..length.
SliceIndex(i, len) ==
    IF i < 0 THEN Maximum(len + i, 0) ELSE Minimum(i, len)

\* words.slice(start, end)
SliceWords(words, start, end) ==
    LET from == SliceIndex(start, Len(words))
        to == SliceIndex(end, Len(words))
    IN IF to > from THEN SubSeq(words, from + 1, to) ELSE <<>>

\* The number of characters of "benefits." and of "a".
WordLength(w) == IF w THEN 9 ELSE 1

\* ws.join(' ').length
RECURSIVE JoinLength(_)
JoinLength(ws) ==
    IF ws = <<>> THEN 0
    ELSE IF Len(ws) = 1 THEN WordLength(ws[1])
    ELSE WordLength(Head(ws)) + 1 + JoinLength(Tail(ws))

\* The number of words up to and including the last one that ends a sentence
\* (adjustedWords.length), 0 when no word does.
AdjustedWords(ws) ==
    LET ends == {j \in 1..Len(ws) : ws[j]}
    IN IF ends = {} THEN 0 ELSE CHOOSE j \in ends : \A k \in ends : k <= j

\* ws.join(' ').lastIndexOf('.')
LastSentenceEnd(ws) ==
    IF AdjustedWords(ws) = 0 THEN -1
    ELSE JoinLength(SubSeq(ws, 1, AdjustedWords(ws))) - 1

\* The end of the window of one loop iteration, after the adjustment to a
\* sentence boundary.
EndIndex(words, startIndex, chunkSize, minChunkSize) ==
    LET endIndex == Minimum(startIndex + chunkSize, Len(words))
        chunkWords == SliceWords(words, startIndex, endIndex)
    IN IF /\ 10 * LastSentenceEnd(chunkWords) > 7 * JoinLength(chunkWords)
          /\ AdjustedWords(chunkWords) >= minChunkSize
       THEN startIndex + AdjustedWords(chunkWords)
       ELSE endIndex

\* The start of the next window.
NextStartIndex(startIndex, endIndex, chunkSize, overlap) ==
    Maximum(startIndex + chunkSize - overlap, endIndex)

\* createChunks: the section fits in one chunk.
CreateChunk ==
    /\ split.pc = "start"
    /\ Len(split.words) <= split.maxChunkSize
    /\ split' = [split EXCEPT
                   !.pc = "done",
                   !.chunks = <<[startIndex |-> 0,
                                 endIndex |-> Len(split.words),
                                 wordCount |-> Len(split.words)]>>]
    /\ UNCHANGED <<schemes, store, jobs, nextDoc, cascaded, azure, chunks, last, ask, cosine, retrievals, run, translation, chunking, refine, quality, status>>

\* splitIntoChunks: one iteration of the loop over an oversized section.
SplitIntoChunks ==
    /\ \/ split.pc = "start" /\ Len(split.words) > split.maxChunkSize
       \/ split.pc = "loop"
    /\ split.startIndex < Len(split.words)
    /\ split.iterations < MaxIterations
    /\ LET endIndex == EndIndex(split.words, split.startIndex,
                                split.chunkSize, split.minChunkSize)
           finalChunkWords == SliceWords(split.words, split.startIndex, endIndex)
           next == NextStartIndex(split.startIndex, endIndex,
                                  split.chunkSize, split.overlap)
       IN split' = [split EXCEPT
                      !.pc = IF next >= Len(split.words) THEN "done" ELSE "loop",
                      !.chunks = IF finalChunkWords # <<>>
                                 THEN Append(@, [startIndex |-> split.startIndex,
                                                 endIndex |-> endIndex,
                                                 wordCount |-> Len(finalChunkWords)])
                                 ELSE @,
                      !.startIndex = next,
                      !.iterations = @ + 1]
    /\ UNCHANGED <<schemes, store, jobs, nextDoc, cascaded, azure, chunks, last, ask, cosine, retrievals, run, translation, chunking, refine, quality, status>>

NextSplit == CreateChunk \/ SplitIntoChunks

SpecSplit == SplitInit /\ [][NextSplit]_vars

\* C18: when chunkSize > overlap > 0, every chunk of an oversized section
\* after the first starts overlap words before the end of the chunk before
\* it, so that the last overlap words of one chunk are the first words of the
\* next.
C18_ConsecutiveChunksOverlap ==
    (/\ Len(split.words) > split.maxChunkSize
     /\ split.chunkSize > split.overlap
     /\ split.overlap > 0)
    => \A i \in 1..(Len(split.chunks) - 1) :
          split.chunks[i + 1].startIndex = split.chunks[i].endIndex - split.overlap

\* C19: every iteration of the loop of splitIntoChunks moves the start cursor
\* strictly forward, by at least chunkSize - overlap words, whatever the
\* words and the options are.
C19_StartCursorAdvances ==
    [][split'.iterations = split.iterations + 1
       => /\ split'.startIndex > split.startIndex
          /\ split'.startIndex - split.startIndex >= split.chunkSize - split.overlap]_vars

\* C20: an answered question carries confidence 0.3 exactly when the
\* generative model call failed, and a confidence above 0.3 when the model
\* produced the answer, whatever the context.
C20_ConfidenceDistinguishesFallback ==
    (ask.called /\ ask.status = 200)
    => /\ ask.fallback => ask.confidence = FallbackConfidence
       /\ ~ask.fallback => ask.confidence > FallbackConfidence

\* The sources of an answer: the context entries that are PDF chunks, which
\* follow the scheme's basic information.
Sources(context) == IF context = <<>> THEN <<>> ELSE Tail(context)

\* C21: a question asked without a schemeId is answered from the chunks of
\* all schemes: when the store holds eligible chunks that score at or above
\* the threshold of 0.3 for the question, the answer lists at least one source.
C21_AskAllSchemesReturnsSources ==
    (/\ ask.called /\ ask.status = 200
     /\ ask.schemeId = <<>>
     /\ \A q \in QueryEmbeddings :
           ResultsOf(<<>>, ask.language, "", q, 5, DefaultMinSimilarityScore) # <<>>)
    => Sources(ask.context) # <<>>

(***************************************************************************)
(* TranslationService (services/translationService.js): translateText and  *)
(* the three callers that translate a query, a PDF's content and an        *)
(* answer.  A text is its language, its length in characters and whether   *)
(* it is blank; a translation by the provider is a text in the target      *)
(* language.  The provider detects the language of a text correctly when   *)
(* it answers.                                                             *)
(***************************************************************************)
MaxTextLength == 50000

Languages == {"en", "mr"}

TranslationTexts ==
    {[language |-> "en", length |-> 0, blank |-> TRUE],
     [language |-> "en", length |-> 1, blank |-> TRUE]}
    \cup {[language |-> l, length |-> n, blank |-> FALSE]
          : l \in Languages, n \in {1, MaxTextLength, MaxTextLength + 1}}

\* What the provider can do with a request: answer, answer with a body of
\* another shape, or fail.
Outcomes == {"ok", "malformed", "error"}

Operations ==
    {"translateText", "translateQueryToEnglish", "translatePDFContentToEnglish",
     "translateResponseToLanguage"}

\* text.substring(0, n)
Substring(text, n) ==
    [text EXCEPT !.length = IF text.length > n THEN n ELSE text.length]

\* translateText: the text it returns and the requests it makes.
TranslateText(text, fromLang, toLang, apiKey, outcome) ==
    IF ~apiKey \/ text.blank \/ fromLang = toLang
    THEN [result |-> text, calls |-> {}]
    ELSE LET sent == Substring(text, MaxTextLength)
         IN  [result |-> IF outcome = "ok"
                         THEN [language |-> toLang, length |-> sent.length, blank |-> FALSE]
                         ELSE sent,
              calls |-> {"translate"}]

\* fallbackLanguageDetection: by the share of Devanagari characters.
FallbackLanguageDetection(text) == text.language

\* detectLanguage: the language it returns and the requests it makes.
DetectLanguage(text, apiKey, outcome) ==
    IF ~apiKey THEN [language |-> FallbackLanguageDetection(text), calls |-> {}]
    ELSE IF text.blank THEN [language |-> "en", calls |-> {}]
    ELSE [language |-> IF outcome = "ok" THEN text.language
                       ELSE FallbackLanguageDetection(text),
          calls |-> {"detect"}]

\* translateQueryToEnglish and translatePDFContentToEnglish.
TranslateToEnglish(text, apiKey, detectOutcome, outcome) ==
    IF text.blank \/ ~apiKey THEN [result |-> text, calls |-> {}]
    ELSE LET detected == DetectLanguage(text, apiKey, detectOutcome)
         IN  IF detected.language = "en"
             THEN [result |-> text, calls |-> detected.calls]
             ELSE LET translated == TranslateText(text, detected.language, "en", apiKey, outcome)
                  IN  [result |-> translated.result,
                       calls |-> detected.calls \cup translated.calls]

\* translateResponseToLanguage.
TranslateResponseToLanguage(response, targetLang, apiKey, outcome) ==
    IF response.blank \/ targetLang = "en" THEN [result |-> response, calls |-> {}]
    ELSE TranslateText(response, "en", targetLang, apiKey, outcome)

TranslationInit ==
    /\ IngestInit
    /\ azure = AzureIdle
    /\ chunks = <<>>
    /\ last = NoSearch
    /\ ask = NoAsk
    /\ cosine = NoCosine
    /\ retrievals = NoRetrievals
    /\ run = NoRun
    /\ split = NoSplit
    /\ chunking = NoChunking
    /\ refine = NoRefine
    /\ quality = NoQuality
    /\ status = NoStatus
    /\ \E text \in TranslationTexts, apiKey \in BOOLEAN :
          translation = [NoTranslation EXCEPT !.text = text, !.apiKey = apiKey]

\* translateText(text, fromLang, toLang) is called and returns.
CallTranslateText ==
    /\ UNCHANGED <<schemes, store, jobs, nextDoc, cascaded, azure, chunks, last, ask, cosine, retrievals, run, split, chunking, refine, quality, status>>
    /\ ~translation.called
    /\ \E fromLang \in Languages, toLang \in Languages, outcome \in Outcomes :
          LET r == TranslateText(translation.text, fromLang, toLang, translation.apiKey, outcome)
          IN  translation' = [translation EXCEPT
                                !.called = TRUE, !.op = "translateText",
                                !.fromLang = fromLang, !.toLang = toLang,
                                !.outcome = outcome,
                                !.result = r.result, !.calls = r.calls]

\* translateQueryToEnglish(query) is called and returns.
CallTranslateQueryToEnglish ==
    /\ UNCHANGED <<schemes, store, jobs, nextDoc, cascaded, azure, chunks, last, ask, cosine, retrievals, run, split, chunking, refine, quality, status>>
    /\ ~translation.called
    /\ \E detectOutcome \in Outcomes, outcome \in Outcomes :
          LET r == TranslateToEnglish(translation.text, translation.apiKey, detectOutcome, outcome)
          IN  translation' = [translation EXCEPT
                                !.called = TRUE, !.op = "translateQueryToEnglish",
                                !.toLang = "en", !.outcome = outcome,
                                !.result = r.result, !.calls = r.calls]

\* translatePDFContentToEnglish(content) is called and returns.
CallTranslatePDFContentToEnglish ==
    /\ UNCHANGED <<schemes, store, jobs, nextDoc, cascaded, azure, chunks, last, ask, cosine, retrievals, run, split, chunking, refine, quality, status>>
    /\ ~translation.called
    /\ \E detectOutcome \in Outcomes, outcome \in Outcomes :
          LET r == TranslateToEnglish(translation.text, translation.apiKey, detectOutcome, outcome)
          IN  translation' = [translation EXCEPT
                                !.called = TRUE, !.op = "translatePDFContentToEnglish",
                                !.toLang = "en", !.outcome = outcome,
                                !.result = r.result, !.calls = r.calls]

\* translateResponseToLanguage(response, targetLang) is called with an
\* English answer and returns.
CallTranslateResponseToLanguage ==
    /\ UNCHANGED <<schemes, store, jobs, nextDoc, cascaded, azure, chunks, last, ask, cosine, retrievals, run, split, chunking, refine, quality, status>>
    /\ ~translation.called
    /\ translation.text.language = "en"
    /\ \E targetLang \in Languages, outcome \in Outcomes :
          LET r == TranslateResponseToLanguage(translation.text, targetLang,
                                               translation.apiKey, outcome)
          IN  translation' = [translation EXCEPT
                                !.called = TRUE, !.op = "translateResponseToLanguage",
                                !.fromLang = "en", !.toLang = targetLang,
                                !.outcome = outcome,
                                !.result = r.result, !.calls = r.calls]

NextTranslation ==
    \/ CallTranslateText
    \/ CallTranslateQueryToEnglish
    \/ CallTranslatePDFContentToEnglish
    \/ CallTranslateResponseToLanguage

SpecTranslation == TranslationInit /\ [][NextTranslation]_vars

\* C22: translateText with equal source and target language returns its text
\* and makes no request, and a query, a document or an answer that is in
\* English comes back unchanged from its translation to English without a
\* translate or a detect request.
C22_SameLanguageIsIdentityWithoutCalls ==
    /\ (translation.called /\ translation.op = "translateText"
        /\ translation.fromLang = translation.toLang)
       => (translation.result = translation.text /\ translation.calls = {})
    /\ (translation.called /\ translation.op # "translateText"
        /\ translation.text.language = "en" /\ translation.toLang = "en")
       => (translation.result = translation.text /\ translation.calls = {})

\* C23: when the credentials are missing, the provider call fails or its
\* answer has another shape, translateText returns the text it was given,
\* with the same length, whatever the length.
C23_FailedTranslationReturnsText ==
    (/\ translation.called /\ translation.op = "translateText"
     /\ ~translation.apiKey \/ translation.outcome \in {"malformed", "error"})
    => translation.result = translation.text

(***************************************************************************)
(* TextPreprocessingService.preprocessAndChunk for a text of several       *)
(* lines: cleanText, extractSections and createChunks.  A line is its      *)
(* length, whether it ends with '.', '!' or '?', whether it starts like a  *)
(* list item, and the lines of the input it is made of.  The sections here *)
(* have at most maxChunkSize words, so each becomes one chunk.             *)
(***************************************************************************)
MaxLines == 4

\* A heading such as "Eligibility", a sentence of body text, a list item.
HeadingLine == [length |-> 11, punct |-> FALSE, bullet |-> FALSE]
BodyLine == [length |-> 40, punct |-> TRUE, bullet |-> FALSE]
ItemLine == [length |-> 20, punct |-> TRUE, bullet |-> TRUE]

LineKinds == {HeadingLine, BodyLine, ItemLine}

\* The lines of a text, each with its position in the text.
InputTexts ==
    UNION {{[i \in 1..n |-> [length |-> f[i].length, punct |-> f[i].punct,
                             bullet |-> f[i].bullet, origin |-> {i}]]
            : f \in [1..n -> LineKinds]}
           : n \in 1..MaxLines}

RECURSIVE SumLineLengths(_)
SumLineLengths(lines) ==
    IF lines = <<>> THEN 0 ELSE Head(lines).length + SumLineLengths(Tail(lines))

\* cleanText: /\s+/g -> ' ' turns every line break into a space, so the text
\* that reaches extractSections is one line.
CleanText(lines) ==
    <<[length |-> SumLineLengths(lines) + Len(lines) - 1,
       punct |-> lines[Len(lines)].punct,
       bullet |-> lines[1].bullet,
       origin |-> UNION {lines[i].origin : i \in 1..Len(lines)}]>>

\* isHeading(line, index, lines) for the line at position i.
IsHeadingAt(lines, i) ==
    IF lines[i].length < 100 /\ ~lines[i].punct
    THEN IF i < Len(lines)
         THEN lines[i + 1].length > lines[i].length \/ lines[i + 1].punct
         ELSE TRUE
    ELSE lines[i].bullet

\* The loop of extractSections from line i on; a title and a content are the
\* input lines they are made of.
RECURSIVE SectionsFrom(_, _, _, _)
SectionsFrom(lines, i, current, sections) ==
    IF i > Len(lines)
    THEN IF current.content # {} THEN Append(sections, current) ELSE sections
    ELSE IF IsHeadingAt(lines, i)
         THEN SectionsFrom(lines, i + 1, [title |-> lines[i].origin, content |-> {}],
                           IF current.content # {} THEN Append(sections, current)
                           ELSE sections)
         ELSE SectionsFrom(lines, i + 1,
                           [current EXCEPT !.content = @ \cup lines[i].origin],
                           sections)

\* extractSections(text)
SectionsOf(lines) == SectionsFrom(lines, 1, [title |-> {}, content |-> {}], <<>>)

\* preprocessAndChunk: steps 1 to 4 for an English text.
PreprocessAndChunk(lines) ==
    LET sections == SectionsOf(CleanText(lines))
    IN  [i \in 1..Len(sections) |->
            [section |-> sections[i].title, content |-> sections[i].content,
             language |-> "en"]]

ChunkingInit ==
    /\ IngestInit
    /\ azure = AzureIdle
    /\ chunks = <<>>
    /\ last = NoSearch
    /\ ask = NoAsk
    /\ cosine = NoCosine
    /\ retrievals = NoRetrievals
    /\ run = NoRun
    /\ split = NoSplit
    /\ translation = NoTranslation
    /\ refine = NoRefine
    /\ quality = NoQuality
    /\ status = NoStatus
    /\ \E lines \in InputTexts : chunking = [NoChunking EXCEPT !.lines = lines]

\* preprocessAndChunk(text) is called and returns.
CallPreprocessAndChunk ==
    /\ UNCHANGED <<schemes, store, jobs, nextDoc, cascaded, azure, chunks, last, ask, cosine, retrievals, run, split, translation, refine, quality, status>>
    /\ ~chunking.called
    /\ chunking' = [chunking EXCEPT !.called = TRUE,
                                    !.chunks = PreprocessAndChunk(chunking.lines)]

NextChunking == CallPreprocessAndChunk

SpecChunking == ChunkingInit /\ [][NextChunking]_vars

\* The heading lines of a text that are followed by body text.
HeadingsOf(lines) ==
    {h \in 1..(Len(lines) - 1) :
        /\ ~lines[h].punct /\ ~lines[h].bullet
        /\ lines[h + 1].punct /\ ~lines[h + 1].bullet}

\* C24: a text in which k heading lines each precede body text gives at
\* least k chunks, the body text after a heading is in a chunk whose section
\* is that heading, and the language of every chunk is 'en'.
C24_ChunksTaggedWithHeadings ==
    chunking.called =>
        /\ Len(chunking.chunks) >= Cardinality(HeadingsOf(chunking.lines))
        /\ \A h \in HeadingsOf(chunking.lines) :
              \E c \in 1..Len(chunking.chunks) :
                  /\ chunking.chunks[c].section = {h}
                  /\ h + 1 \in chunking.chunks[c].content
        /\ \A c \in 1..Len(chunking.chunks) : chunking.chunks[c].language = "en"

\* A stored chunk without its usage statistics.
Immutable(c) == [c EXCEPT !.usageStats = NoUsage]

MaxSentences == 2

QuestionTypes ==
    {"benefits", "eligibility", "application", "documents", "fees", "contact",
     "timeline", "general"}

\* getMaxResponseLength
GetMaxResponseLength(questionType) ==
    CASE questionType = "benefits" -> 800
      [] questionType = "eligibility" -> 600
      [] questionType = "application" -> 1000
      [] questionType = "documents" -> 500
      [] questionType = "fees" -> 300
      [] questionType = "contact" -> 400
      [] questionType = "timeline" -> 400
      [] questionType = "general" -> 1200
      [] OTHER -> 1000

\* Sentence lengths around the limit.
SentenceLengths(maxLength) ==
    {maxLength \div 2, maxLength - 1, maxLength, maxLength + 1}

\* refined.length
RECURSIVE RefinedLength(_)
RefinedLength(sentences) ==
    IF sentences = <<>> THEN 0 ELSE Head(sentences) + 1 + RefinedLength(Tail(sentences))

\* The loop over refined.split(/[.!?]+/): the length of truncated.  The last
\* piece of the split is the empty string after the final punctuation.
RECURSIVE TruncatedLength(_, _, _)
TruncatedLength(pieces, truncated, maxLength) ==
    IF pieces = <<>> THEN truncated
    ELSE IF truncated + Head(pieces) <= maxLength
         THEN TruncatedLength(Tail(pieces), truncated + Head(pieces) + 1, maxLength)
         ELSE truncated

\* refineResponse: the length of the text it returns, whether it was
\* truncated, and whether it ends with a whole sentence.
RefineResponse(sentences, questionType) ==
    LET maxLength == GetMaxResponseLength(questionType)
        truncated == TruncatedLength(Append(sentences, 0), 0, maxLength)
    IN  IF RefinedLength(sentences) > maxLength
        THEN IF truncated > 0
             THEN [length |-> truncated, truncated |-> TRUE, whole |-> TRUE]
             ELSE [length |-> maxLength + 3, truncated |-> TRUE, whole |-> FALSE]
        ELSE [length |-> RefinedLength(sentences), truncated |-> FALSE, whole |-> TRUE]

RefineInit ==
    /\ IngestInit
    /\ azure = AzureIdle
    /\ chunks = <<>>
    /\ last = NoSearch
    /\ ask = NoAsk
    /\ cosine = NoCosine
    /\ retrievals = NoRetrievals
    /\ run = NoRun
    /\ split = NoSplit
    /\ translation = NoTranslation
    /\ chunking = NoChunking
    /\ quality = NoQuality
    /\ status = NoStatus
    /\ \E questionType \in QuestionTypes, n \in 1..MaxSentences :
          \E sentences \in [1..n -> SentenceLengths(GetMaxResponseLength(questionType))] :
             refine = [NoRefine EXCEPT !.questionType = questionType,
                                       !.sentences = sentences]

\* refineResponse(response, question, language) is called and returns.
CallRefineResponse ==
    /\ UNCHANGED <<schemes, store, jobs, nextDoc, cascaded, azure, chunks, last, ask, cosine, retrievals, run, split, translation, chunking, quality, status>>
    /\ ~refine.called
    /\ refine' = [refine EXCEPT !.called = TRUE,
                                !.result = RefineResponse(refine.sentences, refine.questionType)]

NextRefine == CallRefineResponse

SpecRefine == RefineInit /\ [][NextRefine]_vars

\* C26: the answer refineResponse returns is no longer than the limit of the
\* question's type, and a truncated answer ends with a whole sentence.
C26_RefinedWithinBudget ==
    refine.called =>
        /\ refine.result.length <= GetMaxResponseLength(refine.questionType)
        /\ refine.result.truncated => refine.result.whole

\* C27: when the ingestion started by an update or a reprocess returns
\* success: false, the store holds no chunk of the scheme, neither of the
\* document stored before nor of the new one.
C27_FailedReprocessLeavesNoChunks ==
    [][\A j \in JobIds :
         (/\ jobs[j].kind \in {"update", "reprocess"}
          /\ jobs[j].pc = "cleanup" /\ jobs'[j].pc = "failed")
         => ChunksOf(jobs[j].schemeId)' = {}]_vars

MaxKeywords == 10

\* Word counts at and around the limits calculateQualityScore tests.
WordCounts == {0, 49, 50, 99, 100, 500, 501, 1000, 1001}

\* The chunks createChunks returns: extractSections keeps a section, and
\* splitIntoChunks a window, only when its content is not blank.
CreatedChunks ==
    {c \in [blank : BOOLEAN, wordCount : WordCounts,
            contentType : {"paragraph", "heading"}, language : {"en", "mixed"}]
       : ~c.blank}

\* A score without the base of 0.5.
BoostsOnly(chunk, keywords) ==
    IF chunk.blank THEN 0
    ELSE (IF chunk.wordCount >= 100 /\ chunk.wordCount <= 500 THEN 2 ELSE 0)
         + (IF keywords >= 3 /\ keywords <= 8 THEN 1 ELSE 0)

\* calculateQualityScore(content, metadata)
CalculateQualityScore(chunk, keywords) ==
    IF chunk.blank THEN 0
    ELSE LET score ==
               5
               + (IF chunk.wordCount >= 100 /\ chunk.wordCount <= 500 THEN 2
                  ELSE IF chunk.wordCount >= 50 /\ chunk.wordCount <= 1000 THEN 1
                  ELSE 0)
               + (IF chunk.contentType = "heading" THEN 1 ELSE 0)
               + (IF chunk.language # "mixed" THEN 1 ELSE 0)
               + (IF keywords >= 3 /\ keywords <= 8 THEN 1 ELSE 0)
         IN  IF score > 10 THEN 10 ELSE IF score < 0 THEN 0 ELSE score

QualityInit ==
    /\ IngestInit
    /\ azure = AzureIdle
    /\ chunks = <<>>
    /\ last = NoSearch
    /\ ask = NoAsk
    /\ cosine = NoCosine
    /\ retrievals = NoRetrievals
    /\ run = NoRun
    /\ split = NoSplit
    /\ translation = NoTranslation
    /\ chunking = NoChunking
    /\ refine = NoRefine
    /\ status = NoStatus
    /\ \E chunk \in CreatedChunks : quality = [NoQuality EXCEPT !.chunk = chunk]

\* enhanceChunks for the chunk: extractKeywords gives at most ten keywords,
\* then calculateQualityScore.
EnhanceChunk ==
    /\ UNCHANGED <<schemes, store, jobs, nextDoc, cascaded, azure, chunks, last, ask, cosine, retrievals, run, split, translation, chunking, refine, status>>
    /\ ~quality.called
    /\ \E keywords \in 0..MaxKeywords :
          /\ keywords <= quality.chunk.wordCount
          /\ quality' = [quality EXCEPT
                           !.called = TRUE, !.keywords = keywords,
                           !.qualityScore = CalculateQualityScore(quality.chunk, keywords)]

NextQuality == EnhanceChunk

SpecQuality == QualityInit /\ [][NextQuality]_vars

\* C29: the quality score of a chunk preprocessAndChunk produces with the
\* default options is between 0.5 and 1.0, so the filter of the search,
\* metadata.qualityScore >= 0.5, lets it pass.
C29_QualityScoreInRange ==
    quality.called =>
        /\ quality.qualityScore >= 5 /\ quality.qualityScore <= 10
        /\ quality.qualityScore >= MinQualityScore

\* C29 witness: a chunk of mixed language with fewer than 50 words has got
\* the base score of 0.5, the limit of the filter.
C29_Witness ==
    /\ quality.called
    /\ quality.chunk.language = "mixed" /\ quality.chunk.wordCount = 49
    /\ quality.chunk.contentType = "paragraph"
    /\ quality.qualityScore = MinQualityScore

(***************************************************************************)
(* EmbeddingService.getSchemeProcessingStatus (services/                   *)
(* embeddingService.js) running next to the scheme lifecycle and the       *)
(* ingestion jobs: its four countDocuments calls are four steps, and the   *)
(* requests that upload a document, delete or restore the scheme, and the  *)
(* steps of their ingestion jobs, can take place between two of them.      *)
(***************************************************************************)
\* DocumentChunk.countDocuments({schemeId, processingStatus})
CountDocuments(s, processingStatus) ==
    Cardinality({c \in ChunksOf(s) : c.processingStatus = processingStatus})

\* Math.round((completedChunks / totalChunks) * 100), 0 when there is no chunk.
CompletionPercentage(completedChunks, totalChunks) ==
    IF totalChunks > 0
    THEN (200 * completedChunks + totalChunks) \div (2 * totalChunks)
    ELSE 0

\* The call, up to the first countDocuments: all chunks of the scheme.
StatusCountTotal ==
    /\ UNCHANGED <<schemes, store, jobs, nextDoc, cascaded, azure, chunks, last, ask, cosine, retrievals, run, split, translation, chunking, refine, quality>>
    /\ status.pc = "idle"
    /\ \E s \in SchemeIds :
          status' = [status EXCEPT !.pc = "completed", !.schemeId = s,
                                   !.totalChunks = Cardinality(ChunksOf(s))]

\* The second countDocuments: the completed chunks.
StatusCountCompleted ==
    /\ UNCHANGED <<schemes, store, jobs, nextDoc, cascaded, azure, chunks, last, ask, cosine, retrievals, run, split, translation, chunking, refine, quality>>
    /\ status.pc = "completed"
    /\ status' = [status EXCEPT !.pc = "pending",
                                !.completedChunks = CountDocuments(status.schemeId, "completed")]

\* The third countDocuments: the pending chunks.
StatusCountPending ==
    /\ UNCHANGED <<schemes, store, jobs, nextDoc, cascaded, azure, chunks, last, ask, cosine, retrievals, run, split, translation, chunking, refine, quality>>
    /\ status.pc = "pending"
    /\ status' = [status EXCEPT !.pc = "failed",
                                !.pendingChunks = CountDocuments(status.schemeId, "pending")]

\* The fourth countDocuments, the failed chunks, and the return.
StatusCountFailed ==
    /\ UNCHANGED <<schemes, store, jobs, nextDoc, cascaded, azure, chunks, last, ask, cosine, retrievals, run, split, translation, chunking, refine, quality>>
    /\ status.pc = "failed"
    /\ status' = [status EXCEPT
                    !.pc = "returned",
                    !.failedChunks = CountDocuments(status.schemeId, "failed"),
                    !.completionPercentage =
                        CompletionPercentage(status.completedChunks, status.totalChunks)]

\* A countDocuments call that fails: the catch block returns success: false.
StatusError ==
    /\ UNCHANGED <<schemes, store, jobs, nextDoc, cascaded, azure, chunks, last, ask, cosine, retrievals, run, split, translation, chunking, refine, quality>>
    /\ status.pc \in {"idle", "completed", "pending", "failed"}
    /\ status' = [status EXCEPT !.pc = "error"]

NextStatus ==
    \/ \E s \in SchemeIds : CreateScheme(s)
    \/ \E s \in SchemeIds : UpdateScheme(s)
    \/ \E s \in SchemeIds : DeleteScheme(s)
    \/ \E s \in SchemeIds : PermanentDeleteScheme(s)
    \/ \E s \in SchemeIds : RestoreScheme(s)
    \/ \E j \in JobIds : JobFindScheme(j)
    \/ \E j \in JobIds : JobExtract(j)
    \/ \E j \in JobIds : JobChunk(j)
    \/ \E j \in JobIds : JobEmbed(j)
    \/ \E j \in JobIds : JobInsert(j)
    \/ \E j \in JobIds : JobCleanup(j)
    \/ StatusCountTotal
    \/ StatusCountCompleted
    \/ StatusCountPending
    \/ StatusCountFailed
    \/ StatusError

SpecStatus == Init /\ [][NextStatus]_vars

\* C30: in the status getSchemeProcessingStatus returns, the completed, the
\* pending and the failed chunks together are no more than totalChunks, and
\* completionPercentage is between 0 and 100.
C30_StatusCountsConsistent ==
    status.pc = "returned" =>
        /\ status.completedChunks + status.pendingChunks + status.failedChunks
           <= status.totalChunks
        /\ status.completionPercentage >= 0
        /\ status.completionPercentage <= 100

====
